---- MODULE Spec2Model ----
(***************************************************************************)
(* A model of wordle.py, the minimax Wordle solver: the feedback           *)
(* evaluator eval_guess, the legality checker is_legal_guess, the          *)
(* partitioner _get_hardest_response, the process-pool fan-out of          *)
(* get_candidates and the round loop of main.                              *)
(*                                                                         *)
(* Words and responses are tuples of one-character strings.  A Python      *)
(* list is a sequence, a dict is a sequence of <<key, value>> pairs in     *)
(* insertion order, a defaultdict(int) is a function read with a default.  *)
(***************************************************************************)
EXTENDS Integers, Sequences, FiniteSets, TLC

\* ---------------------------------------------------------------- bounds
NumLetters == 2      \* letters of the alphabet the evaluated words are drawn from
MaxAnswers == 3      \* longest answers file
MaxForced == 1       \* most positional "guesses" arguments
MaxWorkers == 2      \* most processes of the multiprocessing.Pool

\* ------------------------------------------------------ program constants
WordLen == 5         \* result = ["r"] * 5

Letters == <<"a", "b", "c", "d">>
Alphabet == {Letters[i] : i \in 1..NumLetters}
AllWords == [1..WordLen -> Alphabet]
Marks == {"r", "y", "g"}
AllGreen == [i \in 1..WordLen |-> "g"]
AllRed == [i \in 1..WordLen |-> "r"]

\* enumerate_responses(n=5): every string of length 5 over r, y, g
enumerate_responses == [1..WordLen -> Marks]

\* ------------------------------------------------------------ defaultdict
\* d[k] of a defaultdict(int): 0 for a key that was never written
DGet(d, k) == IF k \in DOMAIN d THEN d[k] ELSE 0

\* d[k] += 1
DInc(d, k) == [x \in (DOMAIN d) \cup {k} |-> IF x = k THEN DGet(d, k) + 1 ELSE d[x]]

EmptyDict == [x \in {} |-> 0]

\* `c in word` for a string
InWord(c, word) == \E i \in 1..Len(word) : word[i] = c

\* for c in answer: count[c] += 1
RECURSIVE CountLetters(_, _, _)
CountLetters(word, i, count) ==
    IF i > Len(word) THEN count
    ELSE CountLetters(word, i + 1, DInc(count, word[i]))

\* ------------------------------------------------------------ eval_guess
\* first loop of eval_guess: mark the exact matches and count them in seen
RECURSIVE GreenPass(_, _, _, _, _)
GreenPass(guess, answer, i, result, seen) ==
    IF i > Len(guess) THEN <<result, seen>>
    ELSE IF guess[i] = answer[i]
         THEN GreenPass(guess, answer, i + 1,
                        [result EXCEPT ![i] = "g"], DInc(seen, guess[i]))
         ELSE GreenPass(guess, answer, i + 1, result, seen)

\* second loop of eval_guess: mark the misplaced letters left to right while
\* occurrences of the letter remain in the answer
RECURSIVE YellowPass(_, _, _, _, _, _)
YellowPass(guess, answer, i, result, seen, count) ==
    IF i > Len(guess) THEN result
    ELSE IF /\ result[i] # "g"
            /\ InWord(guess[i], answer)
            /\ DGet(seen, guess[i]) < DGet(count, guess[i])
         THEN YellowPass(guess, answer, i + 1,
                         [result EXCEPT ![i] = "y"], DInc(seen, guess[i]), count)
         ELSE YellowPass(guess, answer, i + 1, result, seen, count)

\* a plausible slip: one left-to-right pass that marks g and y together
RECURSIVE OnePass(_, _, _, _, _, _)
OnePass(guess, answer, i, result, seen, count) ==
    IF i > Len(guess) THEN result
    ELSE IF guess[i] = answer[i]
         THEN OnePass(guess, answer, i + 1,
                      [result EXCEPT ![i] = "g"], DInc(seen, guess[i]), count)
         ELSE IF DGet(seen, guess[i]) < DGet(count, guess[i])
              THEN OnePass(guess, answer, i + 1,
                           [result EXCEPT ![i] = "y"], DInc(seen, guess[i]), count)
              ELSE OnePass(guess, answer, i + 1, result, seen, count)

eval_guess_onepass(guess, answer) ==
    OnePass(guess, answer, 1, AllRed, EmptyDict, CountLetters(answer, 1, EmptyDict))

\* eval_guess(guess, answer), for words of equal length
eval_guess(guess, answer) ==
    LET count == CountLetters(answer, 1, EmptyDict)
        green == GreenPass(guess, answer, 1, AllRed, EmptyDict)
    IN  YellowPass(guess, answer, 1, green[1], green[2], count)

\* -------------------------------------------------------- is_legal_guess
\* the loop of is_legal_guess from position i on, seen carried along
RECURSIVE LegalFrom(_, _, _, _, _, _)
LegalFrom(word, guess, resp, i, seen, count) ==
    IF i > Len(guess) THEN TRUE
    ELSE LET c == guess[i] IN
         IF resp[i] = "r"
         THEN IF InWord(c, word) THEN FALSE
              ELSE LegalFrom(word, guess, resp, i + 1, seen, count)
         ELSE IF resp[i] = "g"
         THEN IF word[i] # c \/ DGet(seen, c) = DGet(count, c) THEN FALSE
              ELSE LegalFrom(word, guess, resp, i + 1, DInc(seen, c), count)
         ELSE IF word[i] = c \/ DGet(seen, c) = DGet(count, c) THEN FALSE
              ELSE LegalFrom(word, guess, resp, i + 1, seen, count)

\* is_legal_guess(word, guess, response), for a response over r, y, g
is_legal_guess(word, guess, resp) ==
    LegalFrom(word, guess, resp, 1, EmptyDict, CountLetters(word, 1, EmptyDict))

\* is_candidate(word, guesses, responses)
is_candidate(word, gs, resps) ==
    \A i \in 1..Len(gs) : is_legal_guess(word, gs[i], resps[i])

\* ------------------------------------------------------------------ dict
\* a dict is the sequence of its <<key, value>> items in insertion order
DictKeys(d) == {d[i][1] : i \in 1..Len(d)}

DictIndex(d, k) == CHOOSE i \in 1..Len(d) : d[i][1] = k

\* d[k] for a key that is present
DictGet(d, k) == d[DictIndex(d, k)][2]

\* d[k] of a defaultdict(list): the empty list for a missing key
DefaultGet(d, k) == IF k \in DictKeys(d) THEN DictGet(d, k) ELSE <<>>

\* a plausible slip: the item is added without looking for the key
DictSetAppend(d, k, v) == Append(d, <<k, v>>)

\* d[k] = v: an existing key keeps its place, a new key goes last
DictSet(d, k, v) ==
    IF k \in DictKeys(d)
    THEN [d EXCEPT ![DictIndex(d, k)] = <<k, v>>]
    ELSE Append(d, <<k, v>>)

\* a plausible slip: candidates[response] = [answer] instead of append
RECURSIVE PartitionOverwrite(_, _, _, _)
PartitionOverwrite(guess, answers, i, candidates) ==
    IF i > Len(answers) THEN candidates
    ELSE PartitionOverwrite(guess, answers, i + 1,
             DictSet(candidates, eval_guess(guess, answers[i]), <<answers[i]>>))

\* the loop of _get_hardest_response: candidates[response].append(answer)
RECURSIVE Partition(_, _, _, _)
Partition(guess, answers, i, candidates) ==
    IF i > Len(answers) THEN candidates
    ELSE LET resp == eval_guess(guess, answers[i]) IN
         Partition(guess, answers, i + 1,
             DictSet(candidates, resp, Append(DefaultGet(candidates, resp), answers[i])))

get_hardest_response_overwrite(guess, answers) ==
    <<guess, PartitionOverwrite(guess, answers, 1, <<>>)>>

\* get_hardest_response(guess, answers): the pair (guess, candidates)
get_hardest_response(guess, answers) == <<guess, Partition(guess, answers, 1, <<>>)>>

\* ------------------------------------------------------ get_cardinalities
\* the position a stable descending sort puts item x at: after every item
\* already placed that is at least as large
InsertBySizeDesc(sorted, x) ==
    LET p == Cardinality({j \in 1..Len(sorted) : sorted[j][2] >= x[2]})
    IN  SubSeq(sorted, 1, p) \o <<x>> \o SubSeq(sorted, p + 1, Len(sorted))

\* result.sort(key=lambda t: t[1], reverse=True) over the first i items
RECURSIVE SortBySizeDesc(_, _)
SortBySizeDesc(list, i) ==
    IF i = 0 THEN <<>>
    ELSE InsertBySizeDesc(SortBySizeDesc(list, i - 1), list[i])

\* get_cardinalities(candidates): the (response, size) pairs, largest first
get_cardinalities(candidates) ==
    SortBySizeDesc([i \in 1..Len(candidates) |->
                       <<candidates[i][1], Len(candidates[i][2])>>], Len(candidates))

\* ------------------------------------------------------------- selection
\* response.count('g')
CountG(resp) == Cardinality({i \in 1..Len(resp) : resp[i] = "g"})

\* a plausible slip: rank by the smallest bucket (the last entry) instead
SortKeyLast(t) == <<t[2][Len(t[2])][2], CountG(t[2][Len(t[2])][1])>>

\* the sort key of main: (size of the top bucket, number of g in its response)
SortKey(t) == <<t[2][1][2], CountG(t[2][1][1])>>

\* a plausible slip: the sort is descending, the worst guess comes first
KeyLessWorstFirst(k1, k2) == k1[1] > k2[1] \/ (k1[1] = k2[1] /\ k1[2] < k2[2])

\* a plausible slip: descending number of g on ties
KeyLessMoreG(k1, k2) == k1[1] < k2[1] \/ (k1[1] = k2[1] /\ k1[2] > k2[2])

\* Python's order on tuples of two integers
KeyLess(k1, k2) == k1[1] < k2[1] \/ (k1[1] = k2[1] /\ k1[2] < k2[2])

InsertByKey(sorted, x) ==
    LET p == Cardinality({j \in 1..Len(sorted) :
                             ~KeyLess(SortKey(x), SortKey(sorted[j]))})
    IN  SubSeq(sorted, 1, p) \o <<x>> \o SubSeq(sorted, p + 1, Len(sorted))

\* gc_cardinalities.sort(key=...) over the first i items (stable, ascending)
RECURSIVE SortByKey(_, _)
SortByKey(list, i) ==
    IF i = 0 THEN <<>>
    ELSE InsertByKey(SortByKey(list, i - 1), list[i])

\* gc_cardinalities of main, sorted
gc_cardinalities(guess_cands) ==
    SortByKey([i \in 1..Len(guess_cands) |->
                  <<guess_cands[i][1], get_cardinalities(guess_cands[i][2])>>],
              Len(guess_cands))

\* --------------------------------------------------------- get_candidates
\* the join loop of get_candidates over the first i tasks:
\* guess, candidates = task.get(); results[guess] = candidates
RECURSIVE JoinResults(_, _, _)
JoinResults(gs, answers, i) ==
    IF i = 0 THEN <<>>
    ELSE LET r == get_hardest_response(gs[i], answers)
         IN  DictSet(JoinResults(gs, answers, i - 1), r[1], r[2])

\* get_candidates(legal_guesses, legal_answers) as the caller sees it
get_candidates(gs, answers) == JoinResults(gs, answers, Len(gs))

\* ----------------------------------------------------------------- inputs
w_aaaaa == <<"a", "a", "a", "a", "a">>
w_aaaab == <<"a", "a", "a", "a", "b">>
w_aaaac == <<"a", "a", "a", "a", "c">>
w_aaabc == <<"a", "a", "a", "b", "c">>

\* the words the answers file, the guesses file and the command line draw on
Vocabulary == {w_aaaaa, w_aaaab, w_aaaac, w_aaabc}

SeqsUpTo(S, n) == UNION {[1..k -> S] : k \in 0..n}

IsDistinct(ws) == \A i, j \in 1..Len(ws) : i # j => ws[i] # ws[j]

\* answers.txt: a non-empty list of distinct words
AnswerFiles == {ws \in SeqsUpTo(Vocabulary, MaxAnswers) : Len(ws) >= 1 /\ IsDistinct(ws)}

\* guesses.txt: empty, or one word
GuessFiles == {<<>>} \cup {<<w>> : w \in Vocabulary}

\* the clues tried for a forced guess: what it scores against each answer,
\* and the two extremes
Clues(g, answers) ==
    {eval_guess(g, answers[i]) : i \in 1..Len(answers)} \cup {AllGreen, AllRed}

\* the clue lists of length k tried for the forced guesses gs
RECURSIVE ClueSeqsOfLen(_, _, _)
ClueSeqsOfLen(gs, answers, k) ==
    IF k = 0 THEN {<<>>}
    ELSE {Append(c, f) : c \in ClueSeqsOfLen(gs, answers, k - 1),
                         f \in Clues(gs[k], answers)}

ClueSeqs(gs, answers) == UNION {ClueSeqsOfLen(gs, answers, k) : k \in 0..Len(gs)}

\* command lines validate_args accepts: no more clues than guesses, each
\* clue of the guesses' length and over r, y, g
ArgvSet(answers) ==
    UNION {{[guesses |-> gs, clues |-> c] : c \in ClueSeqs(gs, answers)} :
              gs \in SeqsUpTo(Vocabulary, MaxForced)}

\* ------------------------------------------------------------------ state
VARIABLES
    answers_file,      \* the answers as read from the file
    legal_guesses,     \* guesses file + answers file
    argv,              \* args.guesses and args.clues as given
    args_guesses,      \* args.guesses, popped from the front
    args_clues,        \* args.clues, popped from the front
    legal_answers,     \* the candidate list
    response,          \* the last response
    best_word,         \* the last guess played
    guesses,           \* the guess pool of the current round
    guess_candidates,  \* the mapping get_candidates returned in this round
    prev_answers,      \* legal_answers at the start of the last round
    history,           \* the lines printed: (best_word, response, len(legal_answers))
    pc,                \* where main is
    nworkers,          \* processes of the pool
    tasks,             \* the ApplyResult list of get_candidates
    results,           \* the results dict of get_candidates
    joined,            \* tasks the join loop has got
    ev_guess,          \* arguments and results of a direct call of
    ev_answer,         \*   eval_guess / is_legal_guess
    ev_response,
    ev_result,
    ev_legal

vars == <<answers_file, legal_guesses, argv, args_guesses, args_clues, legal_answers,
          response, best_word, guesses, guess_candidates, prev_answers, history, pc,
          nworkers, tasks, results, joined,
          ev_guess, ev_answer, ev_response, ev_result, ev_legal>>

mainVars == <<answers_file, legal_guesses, argv, args_guesses, args_clues, legal_answers,
              response, best_word, guesses, guess_candidates, prev_answers, history, pc>>

poolVars == <<nworkers, tasks, results, joined>>

evVars == <<ev_guess, ev_answer, ev_response, ev_result, ev_legal>>

NoCall == <<>>

\* main up to the while loop: files read, arguments validated, response = "rrrrr"
InitMain(forced) ==
    /\ answers_file \in AnswerFiles
    /\ \E gf \in GuessFiles : legal_guesses = gf \o answers_file
    /\ argv \in IF forced THEN ArgvSet(answers_file)
                         ELSE {[guesses |-> <<>>, clues |-> <<>>]}
    /\ args_guesses = argv.guesses
    /\ args_clues = argv.clues
    /\ legal_answers = answers_file
    /\ response = AllRed
    /\ best_word = <<>>
    /\ guesses = <<>>
    /\ guess_candidates = <<>>
    /\ prev_answers = <<>>
    /\ history = <<>>
    /\ pc = "loop"

InitPoolIdle ==
    /\ tasks = <<>>
    /\ results = <<>>
    /\ joined = 0

InitEvIdle ==
    /\ ev_guess = NoCall
    /\ ev_answer = NoCall
    /\ ev_response = NoCall
    /\ ev_result = NoCall
    /\ ev_legal = FALSE

\* ------------------------------------------------------------- round loop
\* a plausible slip: the answers are not added to the guess pool
ChooseGuessesNoAnswers ==
    IF args_guesses # <<>> THEN <<Head(args_guesses)>>
    ELSE IF Len(legal_answers) = 1 THEN legal_answers
    ELSE IF Len(legal_guesses) > Len(answers_file)
         THEN SubSeq(legal_guesses, 1, Len(legal_guesses) - Len(answers_file))
         ELSE <<legal_guesses[1]>>

\* lines 70-75: the guess pool of the round
ChooseGuesses ==
    IF args_guesses # <<>> THEN <<Head(args_guesses)>>
    ELSE IF Len(legal_answers) = 1 THEN legal_answers
    ELSE legal_guesses

\* a plausible slip: the loop condition is tested before the emptiness check
AfterRoundLoopFirst(resp, answers) ==
    IF resp = AllGreen THEN "SOLVED"
    ELSE IF Len(answers) < 1 THEN "CONTRADICTION"
    ELSE "loop"

\* lines 93-94 and 69: raise on an empty list, else test the loop condition
AfterRound(resp, answers) ==
    IF Len(answers) < 1 THEN "CONTRADICTION"
    ELSE IF resp = AllGreen THEN "SOLVED"
    ELSE "loop"

\* lines 87-90: the clue if one is left, else the top response of the best guess
NextResponse(ranked) ==
    IF args_clues # <<>> THEN Head(args_clues) ELSE ranked[1][2][1][1]

\* lines 77-94 for the mapping gc that get_candidates returned
FinishRound(gc) ==
    LET ranked == gc_cardinalities(gc)
        best == ranked[1][1]
        resp == NextResponse(ranked)
        answers == DefaultGet(DictGet(gc, best), resp)
    IN  /\ best_word' = best
        /\ response' = resp
        /\ args_clues' = IF args_clues # <<>> THEN Tail(args_clues) ELSE args_clues
        /\ prev_answers' = legal_answers
        /\ legal_answers' = answers
        /\ history' = Append(history, <<best, resp, Len(answers)>>)
        /\ pc' = AfterRound(resp, answers)

\* one iteration of the while loop, get_candidates taken as a whole
Round ==
    /\ pc = "loop"
    /\ guesses' = ChooseGuesses
    /\ args_guesses' = IF args_guesses # <<>> THEN Tail(args_guesses) ELSE args_guesses
    /\ guess_candidates' = get_candidates(guesses', legal_answers)
    /\ FinishRound(guess_candidates')
    /\ UNCHANGED <<answers_file, legal_guesses, argv>>
    /\ UNCHANGED poolVars
    /\ UNCHANGED evVars

Init ==
    /\ InitMain(TRUE)
    /\ nworkers = 1
    /\ InitPoolIdle
    /\ InitEvIdle

Next == Round

Spec == Init /\ [][Next]_vars

\* the solver run without forced guesses or clues
InitAuto ==
    /\ InitMain(FALSE)
    /\ nworkers = 1
    /\ InitPoolIdle
    /\ InitEvIdle

SpecAuto == InitAuto /\ [][Next]_vars

\* ------------------------------------------- get_candidates, step by step
\* pool.apply_async(get_hardest_response, (guess, legal_answers)) per guess
Submit(gs, answers) ==
    [i \in 1..Len(gs) |-> [guess |-> gs[i], answers |-> answers,
                           st |-> "queued", value |-> <<>>]]

Running == {i \in 1..Len(tasks) : tasks[i].st = "running"}

Queued == {i \in 1..Len(tasks) : tasks[i].st = "queued"}

\* a plausible slip: get() returns whatever the task holds, finished or not
TaskReadyNoWait(t) == TRUE

\* task.get() returns once the task has finished
TaskReady(t) == t.st = "done"

\* the join loop has got every task
AllJoined(j, ts) == j = Len(ts)

\* lines 70-75 and 110-122: choose the pool of guesses, submit one task each
StartRound ==
    /\ pc = "loop"
    /\ guesses' = ChooseGuesses
    /\ args_guesses' = IF args_guesses # <<>> THEN Tail(args_guesses) ELSE args_guesses
    /\ tasks' = Submit(guesses', legal_answers)
    /\ results' = <<>>
    /\ joined' = 0
    /\ pc' = "join"
    /\ UNCHANGED <<answers_file, legal_guesses, argv, args_clues, legal_answers, response,
                   best_word, guess_candidates, prev_answers, history, nworkers>>
    /\ UNCHANGED evVars

\* an idle pool process takes the oldest queued task
WorkerStart ==
    /\ pc = "join"
    /\ Queued # {}
    /\ Cardinality(Running) < nworkers
    /\ LET i == CHOOSE q \in Queued : \A r \in Queued : q <= r
       IN  tasks' = [tasks EXCEPT ![i].st = "running"]
    /\ UNCHANGED mainVars
    /\ UNCHANGED <<nworkers, results, joined>>
    /\ UNCHANGED evVars

\* a pool process finishes get_hardest_response for its task
WorkerFinish(i) ==
    /\ pc = "join"
    /\ tasks[i].st = "running"
    /\ tasks' = [tasks EXCEPT ![i].st = "done",
                              ![i].value = get_hardest_response(tasks[i].guess,
                                                                tasks[i].answers)]
    /\ UNCHANGED mainVars
    /\ UNCHANGED <<nworkers, results, joined>>
    /\ UNCHANGED evVars

\* lines 123-125: guess, candidates = task.get(); results[guess] = candidates
JoinTask ==
    /\ pc = "join"
    /\ joined < Len(tasks)
    /\ TaskReady(tasks[joined + 1])
    /\ LET v == tasks[joined + 1].value
       IN  results' = IF v = <<>> THEN results ELSE DictSet(results, v[1], v[2])
    /\ joined' = joined + 1
    /\ UNCHANGED mainVars
    /\ UNCHANGED <<nworkers, tasks>>
    /\ UNCHANGED evVars

\* line 126: the pool is closed and get_candidates returns results
Return ==
    /\ pc = "join"
    /\ AllJoined(joined, tasks)
    /\ guess_candidates' = results
    /\ pc' = "select"
    /\ UNCHANGED <<answers_file, legal_guesses, argv, args_guesses, args_clues,
                   legal_answers, response, best_word, guesses, prev_answers, history>>
    /\ UNCHANGED poolVars
    /\ UNCHANGED evVars

\* lines 77-94: rank the guesses, play the best, narrow the candidates
Select ==
    /\ pc = "select"
    /\ FinishRound(guess_candidates)
    /\ tasks' = <<>>
    /\ UNCHANGED <<answers_file, legal_guesses, argv, args_guesses, guesses,
                   guess_candidates, nworkers, results, joined>>
    /\ UNCHANGED evVars

\* Pool() starts os.cpu_count() processes; the command line gives no guesses
InitPool ==
    /\ InitMain(FALSE)
    /\ nworkers \in 1..MaxWorkers
    /\ InitPoolIdle
    /\ InitEvIdle

NextPool ==
    \/ StartRound
    \/ WorkerStart
    \/ \E i \in 1..Len(tasks) : WorkerFinish(i)
    \/ JoinTask
    \/ Return
    \/ Select

SpecPool == InitPool /\ [][NextPool]_vars

\* ------------------------------------------ direct calls of the evaluators
InitMainIdle ==
    /\ answers_file = <<>>
    /\ legal_guesses = <<>>
    /\ argv = [guesses |-> <<>>, clues |-> <<>>]
    /\ args_guesses = <<>>
    /\ args_clues = <<>>
    /\ legal_answers = <<>>
    /\ response = AllRed
    /\ best_word = <<>>
    /\ guesses = <<>>
    /\ guess_candidates = <<>>
    /\ prev_answers = <<>>
    /\ history = <<>>
    /\ pc = "call"

InitEval ==
    /\ InitMainIdle
    /\ nworkers = 1
    /\ InitPoolIdle
    /\ ev_guess \in AllWords
    /\ ev_answer \in AllWords
    /\ ev_response = NoCall
    /\ ev_result = NoCall
    /\ ev_legal = FALSE

\* ev_result = eval_guess(ev_guess, ev_answer)
EvalGuess ==
    /\ ev_result = NoCall
    /\ ev_result' = eval_guess(ev_guess, ev_answer)
    /\ UNCHANGED <<ev_guess, ev_answer, ev_response, ev_legal>>
    /\ UNCHANGED mainVars
    /\ UNCHANGED poolVars

\* ev_legal = is_legal_guess(ev_answer, ev_guess, f) for a response f
IsLegalGuess ==
    /\ ev_result # NoCall
    /\ ev_response = NoCall
    /\ \E f \in enumerate_responses :
          /\ ev_response' = f
          /\ ev_legal' = is_legal_guess(ev_answer, ev_guess, f)
    /\ UNCHANGED <<ev_guess, ev_answer, ev_result>>
    /\ UNCHANGED mainVars
    /\ UNCHANGED poolVars

NextEval == EvalGuess

SpecEval == InitEval /\ [][NextEval]_vars

NextLegal == EvalGuess \/ IsLegalGuess

SpecLegal == InitEval /\ [][NextLegal]_vars

\* ================================================================= claims
Range(seq) == {seq[i] : i \in 1..Len(seq)}

Occurrences(c, word) == Cardinality({i \in 1..Len(word) : word[i] = c})

\* positions of the guess holding c that are marked g or y
Marked(c, guess, result) ==
    Cardinality({i \in 1..Len(guess) : guess[i] = c /\ result[i] \in {"g", "y"}})

\* C1: for every guess, word and response over r, y, g,
\* eval_guess(guess, word) = response exactly when is_legal_guess(word, guess,
\* response) is true.
C1_Equivalence ==
    ev_response # NoCall => ((ev_result = ev_response) <=> ev_legal)

\* C2: eval_guess marks g at exactly the positions where guess and answer
\* agree, and for every letter the positions of the guess holding it that are
\* marked g or y are no more than its occurrences in the answer.
C2_HitsAndLetterBudget ==
    ev_result # NoCall =>
        /\ Len(ev_result) = WordLen
        /\ \A i \in 1..WordLen : (ev_result[i] = "g") <=> (ev_guess[i] = ev_answer[i])
        /\ \A i \in 1..WordLen : ev_result[i] \in Marks
        /\ \A c \in Alphabet : Marked(c, ev_guess, ev_result) <= Occurrences(c, ev_answer)

\* C2 witness: a letter once in the answer and twice in the guess, one of the
\* two correctly placed, has been scored one g and one r.
C2_Witness ==
    /\ ev_result # NoCall
    /\ \E c \in Alphabet :
          /\ Occurrences(c, ev_answer) = 1
          /\ Occurrences(c, ev_guess) = 2
          /\ \E i, j \in 1..WordLen :
                /\ i < j
                /\ ev_guess[i] = c /\ ev_guess[j] = c
                /\ ev_answer[j] = c
                /\ ev_result[j] = "g" /\ ev_result[i] = "r"

\* ------------------------------------------------------ rounds, as printed
Rounds == Len(history)

\* the last round took a forced guess: they are popped one per round
ForcedRound == Rounds >= 1 /\ Rounds <= Len(argv.guesses)

\* the last round took a clue from the command line
ClueRound == Rounds >= 1 /\ Rounds <= Len(argv.clues)

\* the last round ranked the whole guess pool
SelectorRound == Rounds >= 1 /\ ~ForcedRound /\ Len(prev_answers) > 1

\* the answers of the list C that score response r against guess g
Bucket(g, C, r) == {i \in 1..Len(C) : eval_guess(g, C[i]) = r}

Responses(g, C) == {eval_guess(g, C[i]) : i \in 1..Len(C)}

\* the size of the largest bucket of g over C
MaxBucket(g, C) ==
    LET sizes == {Cardinality(Bucket(g, C, r)) : r \in Responses(g, C)}
    IN  CHOOSE m \in sizes : \A n \in sizes : n <= m

\* the largest bucket's response; of several largest, the one met first in C
TopResponse(g, C) ==
    LET m == MaxBucket(g, C)
        k == CHOOSE i \in 1..Len(C) :
                 /\ Cardinality(Bucket(g, C, eval_guess(g, C[i]))) = m
                 /\ \A j \in 1..(i - 1) :
                       Cardinality(Bucket(g, C, eval_guess(g, C[j]))) < m
    IN  eval_guess(g, C[k])

LetterRank(c) == CHOOSE i \in 1..Len(Letters) : Letters[i] = c

\* a < b for two words of the same length, as Python compares strings
WordLess(a, b) ==
    \E i \in 1..Len(a) :
        /\ \A j \in 1..(i - 1) : a[j] = b[j]
        /\ LetterRank(a[i]) < LetterRank(b[i])

\* C3: when the Selector chooses the guess, no guess of the pool has a
\* strictly smaller largest bucket against the candidates of that round.
C3_Minimax ==
    SelectorRound =>
        /\ best_word \in Range(legal_guesses)
        /\ \A g \in Range(legal_guesses) :
              MaxBucket(best_word, prev_answers) <= MaxBucket(g, prev_answers)

\* C3 witness: the Selector chose among guesses of different worst cases.
C3_Witness ==
    /\ SelectorRound
    /\ \E g \in Range(legal_guesses) :
          MaxBucket(best_word, prev_answers) < MaxBucket(g, prev_answers)

\* the guesses of the pool with the smallest largest bucket
Minimax == {g \in Range(legal_guesses) :
               \A h \in Range(legal_guesses) :
                   MaxBucket(g, prev_answers) <= MaxBucket(h, prev_answers)}

TopG(g) == CountG(TopResponse(g, prev_answers))

\* C4 as stated: among the guesses tied on the largest bucket the Selector
\* returns the one with the most g in the top response, and of those the
\* lexicographically smallest word.
C4_Original ==
    SelectorRound =>
        /\ best_word \in Minimax
        /\ \A g \in Minimax : TopG(g) <= TopG(best_word)
        /\ \A g \in Minimax :
              (TopG(g) = TopG(best_word) /\ g # best_word) => WordLess(best_word, g)

\* the first place of word g in the guess pool
PoolIndex(g) ==
    CHOOSE i \in 1..Len(legal_guesses) :
        legal_guesses[i] = g /\ \A j \in 1..(i - 1) : legal_guesses[j] # g

\* C4 as amended: among the guesses tied on the largest bucket the Selector
\* returns the one with the fewest g in the top response, and of those the
\* one that comes first in the guess pool.
C4_FewestHitsThenPoolOrder ==
    SelectorRound =>
        /\ best_word \in Minimax
        /\ \A g \in Minimax : TopG(best_word) <= TopG(g)
        /\ \A g \in Minimax :
              TopG(g) = TopG(best_word) => PoolIndex(best_word) <= PoolIndex(g)

\* C4 witness: the Selector broke a tie on the largest bucket by the number
\* of g, and a tie on both by the place in the pool against the word order.
C4_Witness ==
    /\ SelectorRound
    /\ \E g \in Minimax : TopG(best_word) < TopG(g)
    /\ \E g \in Minimax :
          g # best_word /\ TopG(g) = TopG(best_word) /\ WordLess(g, best_word)

\* C5: after every round the candidates are exactly the previous candidates
\* that score the round's response against the round's guess; the list never
\* grows, and shrinks when the guess has more than one bucket.
C5_ExactBucket ==
    Rounds >= 1 =>
        /\ history[Rounds] = <<best_word, response, Len(legal_answers)>>
        /\ Range(legal_answers) =
              {a \in Range(prev_answers) : eval_guess(best_word, a) = response}
        /\ Len(legal_answers) = Cardinality(Range(legal_answers))
        /\ Len(legal_answers) <= Len(prev_answers)
        /\ Cardinality(Responses(best_word, prev_answers)) > 1
              => Len(legal_answers) < Len(prev_answers)

\* C5 witness: a forced guess with a forced clue left some, not all, of
\* several candidates.
C5_Witness ==
    /\ ForcedRound
    /\ ClueRound
    /\ Len(legal_answers) >= 1
    /\ Len(legal_answers) < Len(prev_answers)
    /\ Cardinality(Responses(best_word, prev_answers)) > 1

\* every response printed so far is what secret s scores
Truthful(s) ==
    \A k \in 1..Rounds : history[k][2] = eval_guess(history[k][1], s)

RoundsWithin(n) ==
    \A s \in Range(answers_file) :
        Truthful(s) =>
            /\ pc \in {"loop", "SOLVED"}
            /\ Rounds <= n
            /\ Rounds = n => pc = "SOLVED"

C7_Contradiction ==
    /\ (ClueRound /\ response \notin Responses(best_word, prev_answers)) =>
           (pc = "CONTRADICTION" /\ legal_answers = <<>>)
    /\ \A k \in 1..Rounds :
           history[k][3] = 0 => (k = Rounds /\ pc = "CONTRADICTION")

\* C7 witness: an all-g clue that no candidate scores has ended the run.
C7_Witness ==
    /\ ClueRound
    /\ response = AllGreen
    /\ response \notin Responses(best_word, prev_answers)
    /\ pc = "CONTRADICTION"

\* the tasks of the pool that have finished
Done == {i \in 1..Len(tasks) : tasks[i].st = "done"}

\* C8: the partition a task computes for guess g and candidates C has
\* non-empty, pairwise disjoint buckets whose union is C, each answer sits in
\* the bucket keyed by eval_guess(g, answer), and C is left as it was.
C8_Partition ==
    \A t \in Done :
        LET g == tasks[t].guess
            C == tasks[t].answers
            part == tasks[t].value[2]
        IN  /\ tasks[t].value[1] = g
            /\ \A k \in 1..Len(part) : part[k][2] # <<>>
            /\ \A k \in 1..Len(part) :
                  Len(part[k][2]) = Cardinality(Range(part[k][2]))
            /\ \A k, l \in 1..Len(part) :
                  k # l => /\ part[k][1] # part[l][1]
                           /\ Range(part[k][2]) \cap Range(part[l][2]) = {}
            /\ UNION {Range(part[k][2]) : k \in 1..Len(part)} = Range(C)
            /\ \A k \in 1..Len(part) :
                  \A a \in Range(part[k][2]) : eval_guess(g, a) = part[k][1]
            /\ legal_answers = C

\* C8 witness: a finished task has split three or more candidates into
\* several buckets, one of them with several answers.
C8_Witness ==
    \E t \in Done :
        /\ Len(tasks[t].answers) >= 3
        /\ Len(tasks[t].value[2]) >= 2
        /\ \E k \in 1..Len(tasks[t].value[2]) : Len(tasks[t].value[2][k][2]) >= 2

\* C9: the Selector runs only once every task of the round has finished, on
\* the mapping a sequential computation in pool order gives, whatever the
\* number of processes and the order of completion; every task in the pool
\* belongs to the current round, and none is left when the round is over.
C9_Barrier ==
    /\ pc = "select" =>
          /\ Done = 1..Len(tasks)
          /\ Len(tasks) = Len(guesses)
          /\ guess_candidates = get_candidates(guesses, legal_answers)
    /\ pc # "join" => Done = 1..Len(tasks)
    /\ pc \notin {"join", "select"} => tasks = <<>>
    /\ \A i \in 1..Len(tasks) :
          /\ i <= Len(guesses)
          /\ tasks[i].guess = guesses[i]
          /\ tasks[i].answers = legal_answers

\* C9 witness: in a later round, with two or more processes and three or
\* more tasks, one of them for a guess the pool holds twice, the mapping has
\* been handed to the Selector.
C9_Witness ==
    /\ pc = "select"
    /\ Rounds >= 1
    /\ nworkers >= 2
    /\ Len(tasks) >= 3
    /\ Len(guess_candidates) < Len(tasks)

\* C10: with distinct answers, every answer in the guess pool and no forced
\* guess or clue, every round over several candidates leaves fewer, and at
\* least one; the loop never ends in CONTRADICTION, and it is SOLVED, with the
\* last guess as the only candidate, by the round that numbers the answers:
\* while it is still looping fewer rounds than that have been played.
C10_AutoSolves ==
    /\ pc \in {"loop", "SOLVED"}
    /\ (Rounds >= 1 /\ Len(prev_answers) > 1) =>
          (Len(legal_answers) >= 1 /\ Len(legal_answers) < Len(prev_answers))
    /\ pc = "loop" => Rounds < Len(answers_file)
    /\ pc = "SOLVED" => (response = AllGreen /\ legal_answers = <<best_word>>)

\* C10 witness: three rounds, the first two over several candidates, have
\* ended SOLVED with the last guess as the only candidate.
C10_Witness ==
    /\ pc = "SOLVED"
    /\ Rounds >= 3
    /\ legal_answers = <<best_word>>

====
